---- MODULE Spec2Model ----
(***************************************************************************)
(* Model of services/setup.service.ts of appneural-cli-setup:              *)
(*   - applyRoleSetup: role lookup, template/snippet copies, and the       *)
(*     read-modify-write of appneural.config.json;                         *)
(*   - runLocalEnvironmentSetup: tool verification, compose and package    *)
(*     manager detection, install, .env, services, scripts, health checks. *)
(* A JavaScript object is a function whose domain is its set of own keys;  *)
(* a key whose value is undefined is a key that is not in the domain,      *)
(* which is also how JSON.stringify persists it.                           *)
(***************************************************************************)
EXTENDS Integers, Sequences, FiniteSets, TLC

\* Bounds of the exploration.
MaxCalls == 3

Procs == {1, 2}

-----------------------------------------------------------------------------
\* JavaScript object helpers.

EmptyObject == [k \in {} |-> k]

Has(o, key) == key \in DOMAIN o

\* { ...a, ...b }
Spread(a, b) ==
  [k \in (DOMAIN a) \cup (DOMAIN b) |-> IF k \in DOMAIN b THEN b[k] ELSE a[k]]

\* o without the key (a key set to undefined is dropped by JSON.stringify)
Without(o, key) == [k \in (DOMAIN o) \ {key} |-> o[k]]

\* o[key] ?? []
OrEmptyList(o, key) == IF Has(o, key) THEN o[key] ELSE <<>>

\* o[key] ?? {}
OrEmptyObject(o, key) == IF Has(o, key) THEN o[key] ELSE EmptyObject

-----------------------------------------------------------------------------
\* Constants of the program.

DEFAULT_HEALTH_ENDPOINTS ==
  << "http://localhost:3000/health",
     "http://localhost:4000/health",
     "http://localhost:8080/ready" >>

REQUIRED_TOOLS ==
  << [name |-> "node",   required |-> TRUE],
     [name |-> "npm",    required |-> TRUE],
     [name |-> "pnpm",   required |-> FALSE],
     [name |-> "yarn",   required |-> FALSE],
     [name |-> "docker", required |-> TRUE] >>

ToolNames == {"node", "npm", "pnpm", "yarn", "docker"}

LockfileNames == {"pnpm-lock.yaml", "yarn.lock"}

DEFAULT_ROLES ==
  [ k \in {"backend-dev", "frontend-dev", "mobile-dev", "fullstack-dev", "devops"} |->
    CASE k = "backend-dev" ->
           [ description |-> "APPNEURAL backend focused engineer stack",
             shortcuts |-> << [name |-> "svc", command |-> "appneural microservice create",
                               description |-> "Scaffold Nest microservice"],
                              [name |-> "repo", command |-> "appneural repo create",
                               description |-> "Create GitHub repository"] >>,
             templates |-> << "nest-service/basic", "dto-crud/basic", "rest-api-module/core" >>,
             snippets |-> << "database-connection" >>,
             instructions |-> << "Use APPNEURAL microservice generator for each bounded context",
                                 "Follow the DTO CRUD template to keep transports consistent" >>,
             config |-> [ stack |-> "nest", healthChecks |-> DEFAULT_HEALTH_ENDPOINTS ] ]
      [] k = "frontend-dev" ->
           [ description |-> "APPNEURAL frontend experience",
             shortcuts |-> << [name |-> "ui", command |-> "appneural ui add",
                               description |-> "Add UI component"],
                              [name |-> "page", command |-> "appneural generate react-page/dashboard",
                               description |-> "Generate React page"] >>,
             templates |-> << "react-page/dashboard" >>,
             snippets |-> << "apollo-client" >>,
             instructions |-> << "Leverage APPNEURAL UI kit for consistent look",
                                 "Use the page generator for dashboards" >>,
             config |-> [ stack |-> "react" ] ]
      [] k = "mobile-dev" ->
           [ description |-> "APPNEURAL mobile stack",
             shortcuts |-> << [name |-> "rn", command |-> "appneural new react-native-app",
                               description |-> "Create RN app"],
                              [name |-> "sdk", command |-> "appneural sdk generate mobile",
                               description |-> "Generate mobile SDK"] >>,
             templates |-> << "react-page/mobile" >>,
             snippets |-> << "mobile-storage" >>,
             instructions |-> << "Use APPNEURAL Blueprint generator for RN apps",
                                 "Sync native modules through SDK command" >>,
             config |-> [ stack |-> "react-native" ] ]
      [] k = "fullstack-dev" ->
           [ description |-> "APPNEURAL fullstack role",
             shortcuts |-> << [name |-> "fullstack", command |-> "appneural new webapp",
                               description |-> "Create webapp"],
                              [name |-> "svc", command |-> "appneural new nest-microservice",
                               description |-> "Create Nest service"] >>,
             templates |-> << "nest-service/basic", "react-page/dashboard" >>,
             snippets |-> << "fullstack-testing" >>,
             instructions |-> << "Generate paired backend/frontend modules",
                                 "Adopt shared DTO patterns" >>,
             config |-> [ stack |-> "fullstack" ] ]
      [] k = "devops" ->
           [ description |-> "APPNEURAL DevOps automation",
             shortcuts |-> << [name |-> "cloud", command |-> "appneural cloud init --provider aws",
                               description |-> "Init infra"],
                              [name |-> "plan", command |-> "appneural cloud plan dev",
                               description |-> "Plan dev env"] >>,
             templates |-> << "microservice-basic/base" >>,
             snippets |-> << "cicd-pipeline" >>,
             instructions |-> << "Keep infra modules in sync across envs",
                                 "Use the quality suite before shipping" >>,
             config |-> [ stack |-> "devops", healthChecks |-> DEFAULT_HEALTH_ENDPOINTS ] ] ]

\* A roles mapping as YAML.parse can return it from appneural.roles.yaml.
\* Every field of a RoleDefinition is optional.
UserRoles ==
  [ k \in {"api", "web", "ops"} |->
    CASE k = "api" ->
           [ shortcuts |-> << [name |-> "svc", command |-> "appneural microservice create"] >>,
             templates |-> << "nest-service/basic", "dto-crud/basic" >>,
             snippets |-> << "database-connection" >>,
             instructions |-> << "One service per bounded context" >>,
             config |-> [ stack |-> "nest", region |-> "eu-west-1",
                          healthChecks |-> << "http://localhost:9000/health" >> ] ]
      [] k = "web" ->
           [ description |-> "web role",
             templates |-> << "react-page/dashboard" >>,
             instructions |-> << "Use the page generator" >>,
             config |-> [ stack |-> "react", port |-> "5173" ] ]
      [] k = "ops" ->
           [ shortcuts |-> << [name |-> "plan", command |-> "appneural cloud plan dev",
                               description |-> "Plan dev env"] >>,
             snippets |-> << "cicd-pipeline" >>,
             config |-> [ region |-> "us-east-1", healthChecks |-> << >> ] ] ]

\* Contents appneural.roles.yaml can have: no file, a file whose roles mapping
\* is missing or empty, a file with roles.
RolesFiles ==
  { [exists |-> FALSE, roles |-> EmptyObject],
    [exists |-> TRUE,  roles |-> EmptyObject],
    [exists |-> TRUE,  roles |-> UserRoles] }

\* Property names every plain object inherits from Object.prototype; the
\* inherited values (functions, the prototype object) are truthy and have none
\* of the RoleDefinition fields.
ObjectPrototypeKeys == {"constructor"}

\* Role names callers pass to applyRoleSetup.
RoleInputs ==
  {"backend-dev", "frontend-dev", "api", "web", "ops", "qa-dev", "constructor"}

-----------------------------------------------------------------------------
VARIABLES
  rolesFile,        \* appneural.roles.yaml
  configFile,       \* appneural.config.json: [exists, content]
  globalDirs,       \* directories made by ensureDir
  globalTemplates,  \* <<role, templateKey>> copied under GLOBAL_TEMPLATE_ROOT/roles
  globalSnippets,   \* snippet keys copied under GLOBAL_SNIPPET_ROOT
  clock,            \* the wall clock read by new Date()
  calls,            \* number of applyRoleSetup calls made so far
  pc,               \* per caller: position inside applyRoleSetup
  role,             \* per caller: the role argument
  definition,       \* per caller: manifest[role]
  idx,              \* per caller: position of the for..of loop in progress
  currentConfig,    \* per caller: the config read at line 259
  error,            \* per caller: the error thrown, "" if none
  result,           \* per caller: the RoleSetupResult returned, EmptyObject if none
  atCall,           \* per caller: the files as they were when the call started
  applied           \* roles of the calls that returned, in order of their write

roleVars ==
  << rolesFile, configFile, globalDirs, globalTemplates, globalSnippets, clock,
     calls, pc, role, definition, idx, currentConfig, error, result, atCall,
     applied >>

VARIABLES
  installed,        \* the tools whose "--version" invocation succeeds
  lockfiles,        \* the lockfiles present in the workspace root
  envExample,       \* whether .env.example exists
  dotEnv,           \* whether .env has been written
  localPc,          \* position inside runLocalEnvironmentSetup
  toolIndex,        \* position of the loop over REQUIRED_TOOLS
  warnings,         \* names of the tools logger.warn reported missing
  composeExecutor,  \* the compose variant selected, "" before
  manager,          \* the package manager detected, "" before
  services,         \* the services startDockerServices returned
  migrationsExecuted,
  seedersExecuted,
  endpoints,        \* the endpoint list performHealthChecks iterates over
  responses,        \* what fetch did for each endpoint probed so far
  healthChecks,     \* the results array of performHealthChecks
  steps,            \* the steps executed so far, with their outcome
  localError,       \* the error thrown to the caller, "" if none
  localResult       \* the LocalSetupResult returned, EmptyObject if none

localVars ==
  << installed, lockfiles, envExample, dotEnv, localPc, toolIndex, warnings,
     composeExecutor, manager, services, migrationsExecuted, seedersExecuted,
     endpoints, responses, healthChecks, steps, localError, localResult >>

vars == << roleVars, localVars >>

-----------------------------------------------------------------------------
\* readAppneuralConfig / writeAppneuralConfig / loadRolesManifest

ReadAppneuralConfig ==
  IF ~configFile.exists THEN EmptyObject ELSE configFile.content

WrittenConfigFile(config) == [exists |-> TRUE, content |-> config]

LoadRolesManifest ==
  IF ~rolesFile.exists THEN DEFAULT_ROLES
  ELSE IF DOMAIN rolesFile.roles = {} THEN DEFAULT_ROLES
  ELSE rolesFile.roles

\* manifest[role] is truthy: own keys first, then the prototype chain.
RoleFound(manifest, r) == r \in DOMAIN manifest \/ r \in ObjectPrototypeKeys

\* manifest[role], when truthy
ManifestLookup(manifest, r) ==
  IF r \in DOMAIN manifest THEN manifest[r] ELSE EmptyObject

\* The files applyRoleSetup can write.
Files ==
  [ config |-> configFile, dirs |-> globalDirs,
    templates |-> globalTemplates, snippets |-> globalSnippets ]

-----------------------------------------------------------------------------
\* applyRoleSetup, lines 259-277: the config to persist.

\* mutant: the new entry is put in front (unshift for push)
UpdatedHistory_Unshift(config, r, now) ==
  << [role |-> r, appliedAt |-> now] >> \o OrEmptyList(config, "history")

\* mutant: the entry is never pushed
UpdatedHistory_NoPush(config, r, now) == OrEmptyList(config, "history")

UpdatedHistory(config, r, now) ==
  Append(OrEmptyList(config, "history"), [role |-> r, appliedAt |-> now])

\* mutant: the spreads are swapped, earlier settings win
MergedSettings_Swapped(config, def) ==
  Spread(OrEmptyObject(def, "config"), OrEmptyObject(config, "settings"))

MergedSettings(config, def) ==
  Spread(OrEmptyObject(config, "settings"), OrEmptyObject(def, "config"))

\* mutant: no fallback to the persisted value
NextHealthChecks_NoFallback(config, def) ==
  IF Has(def, "config") /\ Has(def.config, "healthChecks")
    THEN {def.config.healthChecks}
    ELSE {}

\* (definition.config?.healthChecks) ?? currentConfig.healthChecks, as a set
\* with at most one element (empty: undefined)
NextHealthChecks(config, def) ==
  IF Has(def, "config") /\ Has(def.config, "healthChecks")
    THEN {def.config.healthChecks}
    ELSE IF Has(config, "healthChecks") THEN {config.healthChecks} ELSE {}

NextConfig(config, r, def, now) ==
  LET hc == NextHealthChecks(config, def)
      fields ==
        [ role |-> r,
          shortcuts |-> OrEmptyList(def, "shortcuts"),
          instructions |-> OrEmptyList(def, "instructions"),
          templates |-> OrEmptyList(def, "templates"),
          snippets |-> OrEmptyList(def, "snippets"),
          settings |-> MergedSettings(config, def),
          history |-> UpdatedHistory(config, r, now),
          updatedAt |-> now ]
      base == Spread(config, fields)
  IN  IF hc = {} THEN Without(base, "healthChecks")
      ELSE Spread(base, [healthChecks |-> CHOOSE h \in hc : TRUE])

RoleSetupResult(r, def) ==
  [ role |-> r,
    shortcuts |-> OrEmptyList(def, "shortcuts"),
    templates |-> OrEmptyList(def, "templates"),
    snippets |-> OrEmptyList(def, "snippets"),
    instructions |-> OrEmptyList(def, "instructions") ]

-----------------------------------------------------------------------------
\* applyRoleSetup, one action per suspension point.

\* lines 243-247: load the manifest, look the role up
Call(p, r) ==
  /\ pc[p] = "idle"
  /\ calls < MaxCalls
  /\ calls' = calls + 1
  /\ role' = [role EXCEPT ![p] = r]
  /\ atCall' = [atCall EXCEPT ![p] = Files]
  /\ result' = [result EXCEPT ![p] = EmptyObject]
  /\ idx' = [idx EXCEPT ![p] = 1]
  /\ currentConfig' = [currentConfig EXCEPT ![p] = EmptyObject]
  /\ LET manifest == LoadRolesManifest
     IN  IF RoleFound(manifest, r)
           THEN /\ definition' = [definition EXCEPT ![p] = ManifestLookup(manifest, r)]
                /\ error' = [error EXCEPT ![p] = ""]
                /\ pc' = [pc EXCEPT ![p] = "ensureDirs"]
           ELSE /\ definition' = [definition EXCEPT ![p] = EmptyObject]
                /\ error' = [error EXCEPT ![p] = "ValidationError: APPNEURAL role not found"]
                /\ pc' = [pc EXCEPT ![p] = "failed"]
  /\ UNCHANGED << rolesFile, configFile, globalDirs, globalTemplates,
                  globalSnippets, clock, applied >>
  /\ UNCHANGED localVars

\* lines 249-250
EnsureDirs(p) ==
  /\ pc[p] = "ensureDirs"
  /\ globalDirs' = globalDirs \cup {"GLOBAL_TEMPLATE_ROOT", "GLOBAL_SNIPPET_ROOT"}
  /\ pc' = [pc EXCEPT ![p] = "templates"]
  /\ UNCHANGED << rolesFile, configFile, globalTemplates, globalSnippets, clock,
                  calls, role, definition, idx, currentConfig, error, result,
                  atCall, applied >>
  /\ UNCHANGED localVars

\* mutant: a missing source undoes the copies the call has made
CopyTemplates_Rollback(p) ==
  /\ pc[p] = "templates"
  /\ LET keys == OrEmptyList(definition[p], "templates")
     IN  IF idx[p] > Len(keys)
           THEN /\ pc' = [pc EXCEPT ![p] = "snippets"]
                /\ idx' = [idx EXCEPT ![p] = 1]
                /\ UNCHANGED << globalTemplates, error >>
           ELSE \E sourceExists \in BOOLEAN :
                  IF sourceExists
                    THEN /\ globalTemplates' =
                              globalTemplates \cup {<< role[p], keys[idx[p]] >>}
                         /\ idx' = [idx EXCEPT ![p] = idx[p] + 1]
                         /\ UNCHANGED << pc, error >>
                    ELSE /\ error' = [error EXCEPT ![p] =
                              "ValidationError: APPNEURAL role template missing"]
                         /\ pc' = [pc EXCEPT ![p] = "failed"]
                         /\ globalTemplates' = atCall[p].templates
                         /\ UNCHANGED idx
  /\ UNCHANGED << rolesFile, configFile, globalDirs, globalSnippets, clock, calls,
                  role, definition, currentConfig, result, atCall, applied >>
  /\ UNCHANGED localVars

\* lines 252-254 and copyTemplateToGlobal; sourceExists is pathExists(source)
CopyTemplates(p) ==
  /\ pc[p] = "templates"
  /\ LET keys == OrEmptyList(definition[p], "templates")
     IN  IF idx[p] > Len(keys)
           THEN /\ pc' = [pc EXCEPT ![p] = "snippets"]
                /\ idx' = [idx EXCEPT ![p] = 1]
                /\ UNCHANGED << globalTemplates, error >>
           ELSE \E sourceExists \in BOOLEAN :
                  IF sourceExists
                    THEN /\ globalTemplates' =
                              globalTemplates \cup {<< role[p], keys[idx[p]] >>}
                         /\ idx' = [idx EXCEPT ![p] = idx[p] + 1]
                         /\ UNCHANGED << pc, error >>
                    ELSE /\ error' = [error EXCEPT ![p] =
                              "ValidationError: APPNEURAL role template missing"]
                         /\ pc' = [pc EXCEPT ![p] = "failed"]
                         /\ UNCHANGED << globalTemplates, idx >>
  /\ UNCHANGED << rolesFile, configFile, globalDirs, globalSnippets, clock, calls,
                  role, definition, currentConfig, result, atCall, applied >>
  /\ UNCHANGED localVars

\* lines 255-257 and copySnippetToGlobal
CopySnippets(p) ==
  /\ pc[p] = "snippets"
  /\ LET keys == OrEmptyList(definition[p], "snippets")
     IN  IF idx[p] > Len(keys)
           THEN /\ pc' = [pc EXCEPT ![p] = "read"]
                /\ UNCHANGED << globalSnippets, globalDirs, idx, error >>
           ELSE \E sourceExists \in BOOLEAN :
                  IF sourceExists
                    THEN /\ globalSnippets' = globalSnippets \cup {keys[idx[p]]}
                         /\ globalDirs' = globalDirs \cup {"GLOBAL_SNIPPET_ROOT"}
                         /\ idx' = [idx EXCEPT ![p] = idx[p] + 1]
                         /\ UNCHANGED << pc, error >>
                    ELSE /\ error' = [error EXCEPT ![p] =
                              "ValidationError: APPNEURAL snippet missing"]
                         /\ pc' = [pc EXCEPT ![p] = "failed"]
                         /\ UNCHANGED << globalSnippets, globalDirs, idx >>
  /\ UNCHANGED << rolesFile, configFile, globalTemplates, clock, calls, role,
                  definition, currentConfig, result, atCall, applied >>
  /\ UNCHANGED localVars

\* line 259
ReadConfig(p) ==
  /\ pc[p] = "read"
  /\ currentConfig' = [currentConfig EXCEPT ![p] = ReadAppneuralConfig]
  /\ pc' = [pc EXCEPT ![p] = "write"]
  /\ UNCHANGED << rolesFile, configFile, globalDirs, globalTemplates,
                  globalSnippets, clock, calls, role, definition, idx, error,
                  result, atCall, applied >>
  /\ UNCHANGED localVars

\* mutant: the config is read again when it is written (a locked update)
ConfigAtWrite_Reread(p) == ReadAppneuralConfig

\* the currentConfig that nextConfig is built from: the one read at line 259
ConfigAtWrite(p) == currentConfig[p]

\* lines 260-297: build nextConfig, write it, log, return
WriteConfig(p) ==
  /\ pc[p] = "write"
  /\ clock' = clock + 1
  /\ configFile' = WrittenConfigFile(
                     NextConfig(ConfigAtWrite(p), role[p], definition[p], clock'))
  /\ result' = [result EXCEPT ![p] = RoleSetupResult(role[p], definition[p])]
  /\ applied' = Append(applied, role[p])
  /\ pc' = [pc EXCEPT ![p] = "done"]
  /\ UNCHANGED << rolesFile, globalDirs, globalTemplates, globalSnippets, calls,
                  role, definition, idx, currentConfig, error, atCall >>
  /\ UNCHANGED localVars

\* the promise has settled; the caller may call again
Settle(p) ==
  /\ pc[p] \in {"done", "failed"}
  /\ pc' = [pc EXCEPT ![p] = "idle"]
  /\ UNCHANGED << rolesFile, configFile, globalDirs, globalTemplates,
                  globalSnippets, clock, calls, role, definition, idx,
                  currentConfig, error, result, atCall, applied >>
  /\ UNCHANGED localVars

-----------------------------------------------------------------------------
InitRole ==
  /\ rolesFile \in RolesFiles
  /\ configFile = [exists |-> FALSE, content |-> EmptyObject]
  /\ globalDirs = {}
  /\ globalTemplates = {}
  /\ globalSnippets = {}
  /\ clock = 0
  /\ calls = 0
  /\ pc = [p \in Procs |-> "idle"]
  /\ role = [p \in Procs |-> ""]
  /\ definition = [p \in Procs |-> EmptyObject]
  /\ idx = [p \in Procs |-> 1]
  /\ currentConfig = [p \in Procs |-> EmptyObject]
  /\ error = [p \in Procs |-> ""]
  /\ result = [p \in Procs |-> EmptyObject]
  /\ atCall = [p \in Procs |-> Files]
  /\ applied = << >>

InitLocalVars ==
  /\ installed = ToolNames
  /\ lockfiles = {}
  /\ envExample = FALSE
  /\ dotEnv = FALSE
  /\ localPc = "idle"
  /\ toolIndex = 1
  /\ warnings = {}
  /\ composeExecutor = ""
  /\ manager = ""
  /\ services = << >>
  /\ migrationsExecuted = FALSE
  /\ seedersExecuted = FALSE
  /\ endpoints = << >>
  /\ responses = << >>
  /\ healthChecks = << >>
  /\ steps = << >>
  /\ localError = ""
  /\ localResult = EmptyObject

Init == InitRole /\ InitLocalVars

\* One operator at the terminal: calls are made one after the other.
Next ==
  \/ \E r \in RoleInputs : Call(1, r)
  \/ EnsureDirs(1)
  \/ CopyTemplates(1)
  \/ CopySnippets(1)
  \/ ReadConfig(1)
  \/ WriteConfig(1)
  \/ Settle(1)

Spec == Init /\ [][Next]_vars

\* Role names the two concurrent callers pass.
RaceRoleInputs == {"frontend-dev", "api", "web", "constructor"}

\* Two invocations of the command against the same workspace.
NextRace ==
  \E p \in Procs :
    \/ \E r \in RaceRoleInputs : Call(p, r)
    \/ EnsureDirs(p)
    \/ CopyTemplates(p)
    \/ CopySnippets(p)
    \/ ReadConfig(p)
    \/ WriteConfig(p)
    \/ Settle(p)

SpecRace == Init /\ [][NextRace]_vars

-----------------------------------------------------------------------------
\* Properties of applyRoleSetup.

History == OrEmptyList(ReadAppneuralConfig, "history")

MissingSourceErrors ==
  { "ValidationError: APPNEURAL role template missing",
    "ValidationError: APPNEURAL snippet missing" }

ProvidesHealthChecks(def) == Has(def, "config") /\ Has(def.config, "healthChecks")

\* The healthChecks of the last role of the sequence whose config has one
\* (a set with at most one element).
RECURSIVE LastProvided(_, _)
LastProvided(manifest, roles) ==
  IF roles = << >> THEN {}
  ELSE LET def == ManifestLookup(manifest, roles[Len(roles)])
       IN  IF ProvidesHealthChecks(def) THEN {def.config.healthChecks}
           ELSE LastProvided(manifest, SubSeq(roles, 1, Len(roles) - 1))

\* C1: a call whose role is not a key of the loaded manifest fails with the
\* validation error and leaves the global directories, the copies and the
\* config file as they were when it started.
C1_UnknownRoleFailsWithoutWrites ==
  \A p \in Procs :
    (pc[p] # "idle" /\ role[p] \notin DOMAIN LoadRolesManifest)
      => /\ pc[p] = "failed"
         /\ error[p] = "ValidationError: APPNEURAL role not found"
         /\ Files = atCall[p]

\* C2: every step leaves the persisted history with one entry per returned
\* call, the i-th entry carrying the role of the i-th call, and with the
\* history before the step as a prefix.
C2_HistoryAppendOnly ==
  [][ /\ Len(History') = Len(applied')
      /\ \A i \in 1..Len(History') : History'[i].role = applied'[i]
      /\ Len(History) <= Len(History')
      /\ SubSeq(History', 1, Len(History)) = History ]_vars

C2_Witness ==
  /\ Len(applied) = MaxCalls
  /\ Len(History) = MaxCalls
  /\ applied[1] # applied[2]

\* C3: after role A then role B, settings is the union of the two config maps
\* with B winning on shared keys, and role, shortcuts, templates, snippets and
\* instructions are B's.
C3_SettingsUnionAndReplacement ==
  (Len(applied) = 2 /\ configFile.exists) =>
    LET manifest == LoadRolesManifest
        a == OrEmptyObject(ManifestLookup(manifest, applied[1]), "config")
        defB == ManifestLookup(manifest, applied[2])
        b == OrEmptyObject(defB, "config")
        cfg == configFile.content
    IN  /\ DOMAIN cfg.settings = (DOMAIN a) \cup (DOMAIN b)
        /\ \A k \in DOMAIN b : cfg.settings[k] = b[k]
        /\ \A k \in (DOMAIN a) \ (DOMAIN b) : cfg.settings[k] = a[k]
        /\ cfg.role = applied[2]
        /\ cfg.shortcuts    = (IF Has(defB, "shortcuts") THEN defB.shortcuts ELSE << >>)
        /\ cfg.templates    = (IF Has(defB, "templates") THEN defB.templates ELSE << >>)
        /\ cfg.snippets     = (IF Has(defB, "snippets") THEN defB.snippets ELSE << >>)
        /\ cfg.instructions = (IF Has(defB, "instructions") THEN defB.instructions ELSE << >>)

C3_Witness ==
  /\ applied = << "api", "web" >>
  /\ pc[1] = "done"
  /\ configFile.content.settings =
       [ stack |-> "react", region |-> "eu-west-1", port |-> "5173",
         healthChecks |-> << "http://localhost:9000/health" >> ]

\* C4: a call that failed on a missing template or snippet source left the
\* config file as it was when the call started, and the copies that precede
\* the missing one are in place.
C4_MissingSourceKeepsConfigAndCopies ==
  \A p \in Procs :
    (pc[p] = "failed" /\ error[p] \in MissingSourceErrors) =>
      LET t == OrEmptyList(definition[p], "templates")
          s == OrEmptyList(definition[p], "snippets")
          inTemplates == error[p] = "ValidationError: APPNEURAL role template missing"
      IN  /\ configFile = atCall[p].config
          /\ result[p] = EmptyObject
          /\ idx[p] <= (IF inTemplates THEN Len(t) ELSE Len(s))
          /\ \A i \in 1..(IF inTemplates THEN idx[p] - 1 ELSE Len(t)) :
               << role[p], t[i] >> \in globalTemplates
          /\ ~inTemplates => \A i \in 1..(idx[p] - 1) : s[i] \in globalSnippets
          /\ atCall[p].templates \subseteq globalTemplates
          /\ atCall[p].snippets \subseteq globalSnippets

C4_Witness ==
  /\ pc[1] = "failed"
  /\ error[1] = "ValidationError: APPNEURAL role template missing"
  /\ role[1] = "backend-dev"
  /\ idx[1] = 3
  /\ configFile.exists
  /\ << "backend-dev", "dto-crud/basic" >> \notin atCall[1].templates
  /\ << "backend-dev", "dto-crud/basic" >> \in globalTemplates

\* C5: when a call has returned, the persisted healthChecks is the role's
\* config.healthChecks if the role has one, and the value persisted before the
\* call otherwise; over the whole run it is the value of the last applied role
\* that has one.
C5_HealthChecksFallback ==
  /\ \A p \in Procs :
       pc[p] = "done" =>
         LET def == definition[p]
             before == IF atCall[p].config.exists THEN atCall[p].config.content
                       ELSE EmptyObject
             cfg == configFile.content
         IN  IF ProvidesHealthChecks(def)
               THEN Has(cfg, "healthChecks") /\ cfg.healthChecks = def.config.healthChecks
               ELSE /\ Has(cfg, "healthChecks") <=> Has(before, "healthChecks")
                    /\ Has(before, "healthChecks") => cfg.healthChecks = before.healthChecks
  /\ LET last == LastProvided(LoadRolesManifest, applied)
         cfg == ReadAppneuralConfig
     IN  IF last = {} THEN ~Has(cfg, "healthChecks")
         ELSE Has(cfg, "healthChecks") /\ last = {cfg.healthChecks}

C5_Witness ==
  /\ pc[1] = "done"
  /\ applied = << "api", "web" >>
  /\ configFile.content.healthChecks = << "http://localhost:9000/health" >>

\* C10: when two calls have both returned after reading the same config, the
\* persisted config is the one of the call that wrote last and its history
\* has a single entry more than the config they read: the entry of the call
\* that wrote first is lost.
C10_LostHistoryEntry ==
  (pc[1] = "done" /\ pc[2] = "done" /\ currentConfig[1] = currentConfig[2]) =>
    LET read == OrEmptyList(currentConfig[1], "history")
    IN  /\ Len(History) = Len(read) + 1
        /\ SubSeq(History, 1, Len(read)) = read
        /\ Len(applied) >= Len(read) + 2
        /\ History[Len(History)].role = applied[Len(applied)]
        /\ configFile.content.role = applied[Len(applied)]
        /\ configFile.content.updatedAt = clock
        /\ \E p \in Procs :
             /\ role[p] = configFile.content.role
             /\ configFile.content.templates = result[p].templates

C10_Witness ==
  /\ pc[1] = "done" /\ pc[2] = "done"
  /\ currentConfig[1] = currentConfig[2]
  /\ Len(OrEmptyList(currentConfig[1], "history")) = 1
  /\ role[1] # role[2]
  /\ Len(applied) = 3
  /\ Len(History) = 2

-----------------------------------------------------------------------------
\* runLocalEnvironmentSetup and its helpers.

\* HTTP statuses a probed endpoint answers with.
Statuses == {200, 404}

\* What fetch does: a response arrives, the transport fails, or the
\* AbortController fires after 4000 ms.
FetchOutcomes ==
  [kind : {"response"}, status : Statuses] \cup {[kind |-> "error"], [kind |-> "timeout"]}

\* isCommandAvailable: the invocation succeeds or the error is swallowed
IsCommandAvailable(command) == command \in installed

\* mutant: yarn.lock is looked at first
DetectPackageManager_YarnFirst ==
  IF "yarn.lock" \in lockfiles
    THEN (IF IsCommandAvailable("yarn") THEN "yarn" ELSE "npm")
    ELSE IF "pnpm-lock.yaml" \in lockfiles
      THEN (IF IsCommandAvailable("pnpm") THEN "pnpm" ELSE "npm")
      ELSE "npm"

DetectPackageManager ==
  IF "pnpm-lock.yaml" \in lockfiles
    THEN (IF IsCommandAvailable("pnpm") THEN "pnpm" ELSE "npm")
    ELSE IF "yarn.lock" \in lockfiles
      THEN (IF IsCommandAvailable("yarn") THEN "yarn" ELSE "npm")
      ELSE "npm"

\* the command line installDependencies runs
InstallCommand(m) ==
  IF m = "pnpm" THEN << "pnpm", "install" >>
  ELSE IF m = "yarn" THEN << "yarn", "install" >>
  ELSE << "npm", "install" >>

\* the command line runScriptIfPresent runs
ScriptCommand(m, script) ==
  IF m = "pnpm" THEN << "pnpm", "run", script, "--if-present" >>
  ELSE IF m = "yarn" THEN << "yarn", "run", script >>
  ELSE << "npm", "run", script, "--if-present" >>

\* the command line startDockerServices runs
ComposeUpCommand(composeCommand) ==
  IF composeCommand = "docker"
    THEN << "docker", "compose", "up", "-d", "db", "redis", "mq" >>
    ELSE << "docker-compose", "up", "-d", "db", "redis", "mq" >>

\* config.healthChecks?.length ? config.healthChecks : DEFAULT_HEALTH_ENDPOINTS
HealthEndpoints(config) ==
  IF Has(config, "healthChecks") /\ Len(config.healthChecks) # 0
    THEN config.healthChecks
    ELSE DEFAULT_HEALTH_ENDPOINTS

\* response.ok
ResponseOk(status) == status >= 200 /\ status <= 299

\* mutant: every response counts as healthy
HealthRecord_AnyResponse(url, outcome) ==
  IF outcome.kind = "response"
    THEN [url |-> url, healthy |-> TRUE, status |-> outcome.status]
    ELSE [url |-> url, healthy |-> FALSE]

\* the record pushed for one endpoint, lines 412-420
HealthRecord(url, outcome) ==
  IF outcome.kind = "response"
    THEN [url |-> url, healthy |-> ResponseOk(outcome.status), status |-> outcome.status]
    ELSE [url |-> url, healthy |-> FALSE]

Step(name, command, ok) == [name |-> name, command |-> command, ok |-> ok]

\* the call starts
RunLocalEnvironmentSetup ==
  /\ localPc = "idle"
  /\ localPc' = "tools"
  /\ toolIndex' = 1
  /\ UNCHANGED << installed, lockfiles, envExample, dotEnv, warnings,
                  composeExecutor, manager, services, migrationsExecuted,
                  seedersExecuted, endpoints, responses, healthChecks, steps,
                  localError, localResult >>
  /\ UNCHANGED roleVars

\* mutant: a missing required tool is only warned about
VerifyTool_WarnOnly ==
  /\ localPc = "tools"
  /\ LET tool == REQUIRED_TOOLS[toolIndex]
         available == IsCommandAvailable(tool.name)
     IN  /\ steps' = Append(steps, Step(tool.name, << tool.name, "--version" >>, available))
         /\ warnings' = IF available THEN warnings ELSE warnings \cup {tool.name}
         /\ toolIndex' = toolIndex + 1
         /\ localPc' = IF toolIndex = Len(REQUIRED_TOOLS) THEN "compose" ELSE "tools"
         /\ UNCHANGED localError
  /\ UNCHANGED << installed, lockfiles, envExample, dotEnv, composeExecutor,
                  manager, services, migrationsExecuted, seedersExecuted,
                  endpoints, responses, healthChecks, localResult >>
  /\ UNCHANGED roleVars

\* lines 427-435, one iteration
VerifyTool ==
  /\ localPc = "tools"
  /\ LET tool == REQUIRED_TOOLS[toolIndex]
         available == IsCommandAvailable(tool.name)
     IN  /\ steps' = Append(steps, Step(tool.name, << tool.name, "--version" >>, available))
         /\ IF ~available /\ tool.required
              THEN /\ localError' = "AppneuralError: APPNEURAL requires tool to be installed"
                   /\ localPc' = "failed"
                   /\ UNCHANGED << warnings, toolIndex >>
              ELSE /\ warnings' = IF available THEN warnings ELSE warnings \cup {tool.name}
                   /\ toolIndex' = toolIndex + 1
                   /\ localPc' = IF toolIndex = Len(REQUIRED_TOOLS) THEN "compose" ELSE "tools"
                   /\ UNCHANGED localError
  /\ UNCHANGED << installed, lockfiles, envExample, dotEnv, composeExecutor,
                  manager, services, migrationsExecuted, seedersExecuted,
                  endpoints, responses, healthChecks, localResult >>
  /\ UNCHANGED roleVars

\* verifyDockerCompose: "docker compose version", then "docker-compose --version"
VerifyDockerCompose ==
  /\ localPc = "compose"
  /\ \E pluginOk \in BOOLEAN, standaloneOk \in BOOLEAN :
       /\ steps' = Append(steps,
            Step("compose",
                 IF pluginOk THEN << "docker", "compose", "version" >>
                 ELSE << "docker-compose", "--version" >>,
                 pluginOk \/ standaloneOk))
       /\ IF pluginOk
            THEN /\ composeExecutor' = "docker"
                 /\ localPc' = "detect"
                 /\ UNCHANGED localError
            ELSE IF standaloneOk
              THEN /\ composeExecutor' = "docker-compose"
                   /\ localPc' = "detect"
                   /\ UNCHANGED localError
              ELSE /\ localError' = "ExecaError: docker-compose --version"
                   /\ localPc' = "failed"
                   /\ UNCHANGED composeExecutor
  /\ UNCHANGED << installed, lockfiles, envExample, dotEnv, toolIndex, warnings,
                  manager, services, migrationsExecuted, seedersExecuted,
                  endpoints, responses, healthChecks, localResult >>
  /\ UNCHANGED roleVars

\* line 438
DetectManager ==
  /\ localPc = "detect"
  /\ manager' = DetectPackageManager
  /\ steps' = Append(steps, Step("detect", << >>, TRUE))
  /\ localPc' = "install"
  /\ UNCHANGED << installed, lockfiles, envExample, dotEnv, toolIndex, warnings,
                  composeExecutor, services, migrationsExecuted, seedersExecuted,
                  endpoints, responses, healthChecks, localError, localResult >>
  /\ UNCHANGED roleVars

\* installDependencies: a failing install rejects
InstallDependencies ==
  /\ localPc = "install"
  /\ \E ok \in BOOLEAN :
       /\ steps' = Append(steps, Step("install", InstallCommand(manager), ok))
       /\ IF ok
            THEN localPc' = "env" /\ UNCHANGED localError
            ELSE localPc' = "failed" /\ localError' = "ExecaError: install"
  /\ UNCHANGED << installed, lockfiles, envExample, dotEnv, toolIndex, warnings,
                  composeExecutor, manager, services, migrationsExecuted,
                  seedersExecuted, endpoints, responses, healthChecks, localResult >>
  /\ UNCHANGED roleVars

\* generateEnvFile: .env is written when .env.example exists
GenerateEnvFile ==
  /\ localPc = "env"
  /\ dotEnv' = (dotEnv \/ envExample)
  /\ steps' = Append(steps, Step("env", << >>, envExample))
  /\ localPc' = "services"
  /\ UNCHANGED << installed, lockfiles, envExample, toolIndex, warnings,
                  composeExecutor, manager, services, migrationsExecuted,
                  seedersExecuted, endpoints, responses, healthChecks,
                  localError, localResult >>
  /\ UNCHANGED roleVars

\* startDockerServices: a failing "up" rejects
StartDockerServices ==
  /\ localPc = "services"
  /\ \E ok \in BOOLEAN :
       /\ steps' = Append(steps, Step("services", ComposeUpCommand(composeExecutor), ok))
       /\ IF ok
            THEN /\ services' = << "db", "redis", "mq" >>
                 /\ localPc' = "migrate"
                 /\ UNCHANGED localError
            ELSE /\ localPc' = "failed"
                 /\ localError' = "ExecaError: compose up"
                 /\ UNCHANGED services
  /\ UNCHANGED << installed, lockfiles, envExample, dotEnv, toolIndex, warnings,
                  composeExecutor, manager, migrationsExecuted, seedersExecuted,
                  endpoints, responses, healthChecks, localResult >>
  /\ UNCHANGED roleVars

\* mutant: the error of the script is not caught
RunMigrate_Uncaught ==
  /\ localPc = "migrate"
  /\ \E ok \in BOOLEAN :
       /\ steps' = Append(steps, Step("migrate", ScriptCommand(manager, "migrate"), ok))
       /\ migrationsExecuted' = ok
       /\ IF ok
            THEN localPc' = "seed" /\ UNCHANGED localError
            ELSE localPc' = "failed" /\ localError' = "ExecaError: migrate"
  /\ UNCHANGED << installed, lockfiles, envExample, dotEnv, toolIndex, warnings,
                  composeExecutor, manager, services, seedersExecuted, endpoints,
                  responses, healthChecks, localResult >>
  /\ UNCHANGED roleVars

\* runScriptIfPresent(manager, "migrate"): true, or false when execa rejects
RunMigrate ==
  /\ localPc = "migrate"
  /\ \E ok \in BOOLEAN :
       /\ steps' = Append(steps, Step("migrate", ScriptCommand(manager, "migrate"), ok))
       /\ migrationsExecuted' = ok
  /\ localPc' = "seed"
  /\ UNCHANGED << installed, lockfiles, envExample, dotEnv, toolIndex, warnings,
                  composeExecutor, manager, services, seedersExecuted, endpoints,
                  responses, healthChecks, localError, localResult >>
  /\ UNCHANGED roleVars

\* runScriptIfPresent(manager, "seed")
RunSeed ==
  /\ localPc = "seed"
  /\ \E ok \in BOOLEAN :
       /\ steps' = Append(steps, Step("seed", ScriptCommand(manager, "seed"), ok))
       /\ seedersExecuted' = ok
  /\ localPc' = "health"
  /\ UNCHANGED << installed, lockfiles, envExample, dotEnv, toolIndex, warnings,
                  composeExecutor, manager, services, migrationsExecuted,
                  endpoints, responses, healthChecks, localError, localResult >>
  /\ UNCHANGED roleVars

\* performHealthChecks, lines 407-409
ReadHealthEndpoints ==
  /\ localPc = "health"
  /\ endpoints' = HealthEndpoints(ReadAppneuralConfig)
  /\ healthChecks' = << >>
  /\ responses' = << >>
  /\ steps' = Append(steps, Step("health", << >>, TRUE))
  /\ localPc' = "probe"
  /\ UNCHANGED << installed, lockfiles, envExample, dotEnv, toolIndex, warnings,
                  composeExecutor, manager, services, migrationsExecuted,
                  seedersExecuted, localError, localResult >>
  /\ UNCHANGED roleVars

\* performHealthChecks, lines 411-421, one iteration
ProbeEndpoint ==
  /\ localPc = "probe"
  /\ Len(healthChecks) < Len(endpoints)
  /\ \E outcome \in FetchOutcomes :
       /\ responses' = Append(responses, outcome)
       /\ healthChecks' =
            Append(healthChecks, HealthRecord(endpoints[Len(healthChecks) + 1], outcome))
  /\ UNCHANGED << installed, lockfiles, envExample, dotEnv, localPc, toolIndex,
                  warnings, composeExecutor, manager, services, migrationsExecuted,
                  seedersExecuted, endpoints, steps, localError, localResult >>
  /\ UNCHANGED roleVars

\* lines 446-453
ReturnLocalResult ==
  /\ localPc = "probe"
  /\ Len(healthChecks) = Len(endpoints)
  /\ localResult' =
       [ packageManager |-> manager,
         envGenerated |-> steps[CHOOSE i \in 1..Len(steps) : steps[i].name = "env"].ok,
         dockerServices |-> services,
         migrationsExecuted |-> migrationsExecuted,
         seedersExecuted |-> seedersExecuted,
         healthChecks |-> healthChecks ]
  /\ localPc' = "done"
  /\ UNCHANGED << installed, lockfiles, envExample, dotEnv, toolIndex, warnings,
                  composeExecutor, manager, services, migrationsExecuted,
                  seedersExecuted, endpoints, responses, healthChecks, steps,
                  localError >>
  /\ UNCHANGED roleVars

\* The workspace the local setup runs in: the config file is absent or is the
\* one a role application has written.
ConfigFilesOnDisk ==
  { [exists |-> FALSE, content |-> EmptyObject] } \cup
  { WrittenConfigFile(NextConfig(EmptyObject, r, DEFAULT_ROLES[r], 1)) :
      r \in {"backend-dev", "frontend-dev"} } \cup
  { WrittenConfigFile(NextConfig(EmptyObject, r, UserRoles[r], 1)) :
      r \in {"api", "ops"} }

InitLocal ==
  /\ rolesFile \in RolesFiles
  /\ configFile \in ConfigFilesOnDisk
  /\ configFile.exists =>
       /\ Has(LoadRolesManifest, configFile.content.role)
       /\ configFile.content.templates =
            OrEmptyList(LoadRolesManifest[configFile.content.role], "templates")
  /\ globalDirs = IF configFile.exists
                    THEN {"GLOBAL_TEMPLATE_ROOT", "GLOBAL_SNIPPET_ROOT"} ELSE {}
  /\ globalTemplates =
       IF configFile.exists
         THEN { << configFile.content.role, configFile.content.templates[i] >> :
                  i \in 1..Len(configFile.content.templates) }
         ELSE {}
  /\ globalSnippets =
       IF configFile.exists
         THEN { configFile.content.snippets[i] : i \in 1..Len(configFile.content.snippets) }
         ELSE {}
  /\ clock = IF configFile.exists THEN 1 ELSE 0
  /\ calls = clock
  /\ applied = IF configFile.exists THEN << configFile.content.role >> ELSE << >>
  /\ pc = [p \in Procs |-> "idle"]
  /\ role = [p \in Procs |-> ""]
  /\ definition = [p \in Procs |-> EmptyObject]
  /\ idx = [p \in Procs |-> 1]
  /\ currentConfig = [p \in Procs |-> EmptyObject]
  /\ error = [p \in Procs |-> ""]
  /\ result = [p \in Procs |-> EmptyObject]
  /\ atCall = [p \in Procs |-> Files]
  /\ installed \in SUBSET ToolNames
  /\ lockfiles \in SUBSET LockfileNames
  /\ envExample \in BOOLEAN
  /\ dotEnv = FALSE
  /\ localPc = "idle"
  /\ toolIndex = 1
  /\ warnings = {}
  /\ composeExecutor = ""
  /\ manager = ""
  /\ services = << >>
  /\ migrationsExecuted = FALSE
  /\ seedersExecuted = FALSE
  /\ endpoints = << >>
  /\ responses = << >>
  /\ healthChecks = << >>
  /\ steps = << >>
  /\ localError = ""
  /\ localResult = EmptyObject

NextLocal ==
  \/ RunLocalEnvironmentSetup
  \/ VerifyTool
  \/ VerifyDockerCompose
  \/ DetectManager
  \/ InstallDependencies
  \/ GenerateEnvFile
  \/ StartDockerServices
  \/ RunMigrate
  \/ RunSeed
  \/ ReadHealthEndpoints
  \/ ProbeEndpoint
  \/ ReturnLocalResult

SpecLocal == InitLocal /\ [][NextLocal]_vars

-----------------------------------------------------------------------------
\* Properties of runLocalEnvironmentSetup.

StepOrder ==
  << "node", "npm", "pnpm", "yarn", "docker", "compose", "detect", "install",
     "env", "services", "migrate", "seed", "health" >>

StepNames == [i \in 1..Len(steps) |-> steps[i].name]

Executed(name) == \E i \in 1..Len(steps) : steps[i].name = name

StepIndex(name) == CHOOSE i \in 1..Len(steps) : steps[i].name = name

\* C6: the steps run in the fixed order, and a missing required tool, the
\* failure of both compose variants or a failed install is the last step that
\* runs: the call is rejected, no result is returned, and nothing of the later
\* steps (.env, services, scripts, probes) has happened.
C6_FatalStepAbortsFlow ==
  /\ Len(steps) <= Len(StepOrder)
  /\ StepNames = SubSeq(StepOrder, 1, Len(steps))
  /\ \A i \in 1..Len(steps) :
       (steps[i].name \in {"node", "npm", "docker", "compose", "install"} /\ ~steps[i].ok)
         => /\ i = Len(steps)
            /\ localPc = "failed"
            /\ localError # ""
            /\ localResult = EmptyObject
            /\ ~dotEnv
            /\ services = << >>
            /\ ~migrationsExecuted /\ ~seedersExecuted
            /\ healthChecks = << >> /\ responses = << >>
  /\ \A t \in {"node", "npm", "docker"} :
       (Executed(t) /\ t \notin installed) => localPc = "failed"

C6_Witness ==
  /\ localPc = "failed"
  /\ steps[Len(steps)].name = "docker"
  /\ "pnpm" \in warnings
  /\ envExample /\ ~dotEnv
  /\ localResult = EmptyObject

\* C7: a failed migrate or seed invocation never rejects the call; the seed
\* script runs after a failed migrate, the health checks after the seed, and the
\* result carries each script's own outcome.
C7_ScriptFailureNonFatal ==
  /\ \A i \in 1..Len(steps) :
       (steps[i].name \in {"migrate", "seed"} /\ ~steps[i].ok) => localPc # "failed"
  /\ (Executed("migrate") /\ ~steps[StepIndex("migrate")].ok) =>
       /\ localPc \in {"seed", "health", "probe", "done"}
       /\ ~migrationsExecuted
       /\ localPc \in {"health", "probe", "done"} => Executed("seed")
       /\ localPc \in {"probe", "done"} => Executed("health")
  /\ localPc = "done" =>
       /\ StepIndex("migrate") < StepIndex("seed")
       /\ StepIndex("seed") < StepIndex("health")
       /\ localResult.migrationsExecuted = steps[StepIndex("migrate")].ok
       /\ localResult.seedersExecuted = steps[StepIndex("seed")].ok
       /\ Len(localResult.healthChecks) = Len(endpoints)

C7_Witness ==
  /\ localPc = "done"
  /\ ~steps[StepIndex("migrate")].ok
  /\ steps[StepIndex("seed")].ok
  /\ localResult.migrationsExecuted = FALSE
  /\ localResult.seedersExecuted = TRUE
  /\ Len(localResult.healthChecks) = 3

\* C8: the detected manager is pnpm or npm (by the pnpm binary) when the pnpm
\* lockfile exists, else yarn or npm (by the yarn binary) when the yarn lockfile
\* exists, else npm; pnpm and yarn are never selected without their lockfile.
C8_PackageManagerDetection ==
  manager # "" =>
    LET pnpmLock == "pnpm-lock.yaml" \in lockfiles
        yarnLock == "yarn.lock" \in lockfiles
        pnpmBin == "pnpm" \in installed
        yarnBin == "yarn" \in installed
    IN  /\ (pnpmLock /\ pnpmBin) => manager = "pnpm"
        /\ (pnpmLock /\ ~pnpmBin) => manager = "npm"
        /\ (~pnpmLock /\ yarnLock /\ yarnBin) => manager = "yarn"
        /\ (~pnpmLock /\ yarnLock /\ ~yarnBin) => manager = "npm"
        /\ (~pnpmLock /\ ~yarnLock) => manager = "npm"
        /\ manager = "pnpm" => pnpmLock
        /\ manager = "yarn" => yarnLock

C8_Witness ==
  /\ manager = "npm"
  /\ lockfiles = {"pnpm-lock.yaml", "yarn.lock"}
  /\ "yarn" \in installed
  /\ "pnpm" \notin installed

\* C9: the results hold one record per probed endpoint, in the order of the
\* endpoint list; a record is {url, healthy: ok, status} when a response
\* arrived and {url, healthy: false} otherwise; probing never rejects the
\* call, and the returned list covers every endpoint.
C9_HealthCheckAggregation ==
  /\ Len(healthChecks) = Len(responses)
  /\ Len(healthChecks) <= Len(endpoints)
  /\ Len(responses) > 0 => localPc \in {"probe", "done"}
  /\ \A i \in 1..Len(healthChecks) :
       /\ healthChecks[i].url = endpoints[i]
       /\ IF responses[i].kind = "response"
            THEN /\ DOMAIN healthChecks[i] = {"url", "healthy", "status"}
                 /\ healthChecks[i].status = responses[i].status
                 /\ healthChecks[i].healthy =
                      (responses[i].status >= 200 /\ responses[i].status <= 299)
            ELSE /\ DOMAIN healthChecks[i] = {"url", "healthy"}
                 /\ healthChecks[i].healthy = FALSE
  /\ localPc = "done" =>
       /\ Len(healthChecks) = Len(endpoints)
       /\ localResult.healthChecks = healthChecks

C9_Witness ==
  /\ localPc = "done"
  /\ endpoints = DEFAULT_HEALTH_ENDPOINTS
  /\ responses[1].kind = "timeout"
  /\ responses[2].kind = "response" /\ responses[2].status = 200
  /\ responses[3].kind = "response" /\ responses[3].status = 404
  /\ localResult.healthChecks =
       << [url |-> "http://localhost:3000/health", healthy |-> FALSE],
          [url |-> "http://localhost:4000/health", healthy |-> TRUE, status |-> 200],
          [url |-> "http://localhost:8080/ready", healthy |-> FALSE, status |-> 404] >>

====
